---------------------------- MODULE Spec2Model ----------------------------
(***************************************************************************)
(* Model of src/lib/crypto.js: the Crypto context (key acquisition from    *)
(* the keychain, aes-256-gcm encrypt / decrypt and the envelope format,    *)
(* close).  Strings are sequences of character codes, buffers sequences of *)
(* bytes.                                                                  *)
(***************************************************************************)
EXTENDS Integers, Sequences, FiniteSets, TLC

(***************************************************************************)
(* Program constants.                                                      *)
(***************************************************************************)
\* const TAG_DELIMITER = ':' , as a character code
TAG_DELIMITER == 58
\* const BYTE_COUNT_FOR_IV = 6
BYTE_COUNT_FOR_IV == 6
\* crypto.randomBytes(Math.ceil(16)): bytes of a generated key
KEY_BYTE_COUNT == 16
\* const _algo = 'aes-256-gcm': the cipher takes a key of 32 bytes
ALGO_KEY_LEN == 32

(***************************************************************************)
(* Bounds of the model.                                                    *)
(***************************************************************************)
\* crypto.randomBytes draws one of MaxSeed + 1 outcomes
MaxSeed == 1
\* bytes of the authentication tag the modelled cipher produces (16 in
\* aes-256-gcm); more than the bytes of every plaintext the model encrypts
AuthTagLen == 5
\* store calls one acquisition may make before the model stops counting
MaxStoreCalls == 5
\* external calls of init() on one context
MaxInits == 2
\* calls of close() on one context
MaxCloses == 2

\* null / undefined: a value no string equals (no character code is negative)
NULL == << -1 >>

(***************************************************************************)
(* Bytes, hex and UTF-8: Buffer.toString('hex'), Buffer.from(s, 'hex'),    *)
(* the 'utf8' input and output encodings of the cipher.                    *)
(***************************************************************************)
RECURSIVE XorN(_, _, _)
XorN(a, b, n) ==
  IF n = 0 THEN 0
  ELSE (((a % 2) + (b % 2)) % 2) + 2 * XorN(a \div 2, b \div 2, n - 1)

Xor(a, b) == XorN(a, b, 8)

\* the value with bit k (0 = lowest) flipped
FlipBit(v, k) == Xor(v, 2 ^ k)

\* lower-case hex digit of a nibble, as toString('hex') writes it
HexDigit(n) == IF n < 10 THEN 48 + n ELSE 87 + n

\* value of a hex digit (either case), -1 for any other character
HexVal(ch) ==
  IF ch >= 48 /\ ch <= 57 THEN ch - 48
  ELSE IF ch >= 97 /\ ch <= 102 THEN ch - 87
  ELSE IF ch >= 65 /\ ch <= 70 THEN ch - 55
  ELSE -1

\* two lower-case hex digits per byte
ToHex(bytes) ==
  [i \in 1..(2 * Len(bytes)) |->
     IF i % 2 = 1 THEN HexDigit(bytes[(i + 1) \div 2] \div 16)
     ELSE HexDigit(bytes[i \div 2] % 16)]

\* hex decoding stops at the first pair that is not two hex digits
RECURSIVE HexPairs(_, _)
HexPairs(str, n) ==
  IF Len(str) < 2 * n + 2 THEN n
  ELSE IF HexVal(str[2 * n + 1]) < 0 \/ HexVal(str[2 * n + 2]) < 0 THEN n
  ELSE HexPairs(str, n + 1)

FromHex(str) ==
  [i \in 1..HexPairs(str, 0) |-> HexVal(str[2 * i - 1]) * 16 + HexVal(str[2 * i])]

IsHighSurrogate(u) == u >= 55296 /\ u <= 56319
IsLowSurrogate(u) == u >= 56320 /\ u <= 57343

\* UTF-8 bytes of one code point
Utf8OfCodePoint(cp) ==
  IF cp < 128 THEN << cp >>
  ELSE IF cp < 2048 THEN << 192 + (cp \div 64), 128 + (cp % 64) >>
  ELSE IF cp < 65536
       THEN << 224 + (cp \div 4096), 128 + ((cp \div 64) % 64), 128 + (cp % 64) >>
  ELSE << 240 + (cp \div 262144), 128 + ((cp \div 4096) % 64),
          128 + ((cp \div 64) % 64), 128 + (cp % 64) >>

\* UTF-8 bytes of a string of UTF-16 code units; an unpaired surrogate is
\* written as U+FFFD
RECURSIVE Utf8Encode(_)
Utf8Encode(s) ==
  IF \A i \in 1..Len(s) : s[i] < 128 THEN s
  ELSE IF s[1] < 128 THEN << s[1] >> \o Utf8Encode(Tail(s))
  ELSE IF IsHighSurrogate(s[1]) /\ Len(s) >= 2 /\ IsLowSurrogate(s[2])
       THEN Utf8OfCodePoint(65536 + (s[1] - 55296) * 1024 + (s[2] - 56320))
            \o Utf8Encode(SubSeq(s, 3, Len(s)))
  ELSE IF IsHighSurrogate(s[1]) \/ IsLowSurrogate(s[1])
       THEN Utf8OfCodePoint(65533) \o Utf8Encode(Tail(s))
  ELSE Utf8OfCodePoint(s[1]) \o Utf8Encode(Tail(s))

IsCont(b) == b >= 128 /\ b <= 191

\* code units of a code point
UnitsOfCodePoint(cp) ==
  IF cp < 65536 THEN << cp >>
  ELSE << 55296 + ((cp - 65536) \div 1024), 56320 + ((cp - 65536) % 1024) >>

\* string of the UTF-8 bytes; a byte that starts no well-formed sequence is
\* read as U+FFFD
RECURSIVE Utf8Decode(_)
Utf8Decode(b) ==
  IF \A i \in 1..Len(b) : b[i] < 128 THEN b
  ELSE IF b[1] < 128 THEN << b[1] >> \o Utf8Decode(Tail(b))
  ELSE IF b[1] >= 194 /\ b[1] <= 223 /\ Len(b) >= 2 /\ IsCont(b[2])
       THEN << (b[1] - 192) * 64 + (b[2] - 128) >>
            \o Utf8Decode(SubSeq(b, 3, Len(b)))
  ELSE IF b[1] >= 224 /\ b[1] <= 239 /\ Len(b) >= 3 /\ IsCont(b[2]) /\ IsCont(b[3])
          /\ (b[1] - 224) * 4096 + (b[2] - 128) * 64 + (b[3] - 128) >= 2048
          /\ ~ IsHighSurrogate((b[1] - 224) * 4096 + (b[2] - 128) * 64 + (b[3] - 128))
          /\ ~ IsLowSurrogate((b[1] - 224) * 4096 + (b[2] - 128) * 64 + (b[3] - 128))
       THEN << (b[1] - 224) * 4096 + (b[2] - 128) * 64 + (b[3] - 128) >>
            \o Utf8Decode(SubSeq(b, 4, Len(b)))
  ELSE IF b[1] >= 240 /\ b[1] <= 244 /\ Len(b) >= 4
          /\ IsCont(b[2]) /\ IsCont(b[3]) /\ IsCont(b[4])
          /\ (b[1] - 240) * 262144 + (b[2] - 128) * 4096
               + (b[3] - 128) * 64 + (b[4] - 128) >= 65536
          /\ (b[1] - 240) * 262144 + (b[2] - 128) * 4096
               + (b[3] - 128) * 64 + (b[4] - 128) <= 1114111
       THEN UnitsOfCodePoint((b[1] - 240) * 262144 + (b[2] - 128) * 4096
                               + (b[3] - 128) * 64 + (b[4] - 128))
            \o Utf8Decode(SubSeq(b, 5, Len(b)))
  ELSE << 65533 >> \o Utf8Decode(Tail(b))

\* crypto.randomBytes(n): one of the outcomes the model draws
RandomBytes(n) ==
  { [i \in 1..n |-> (seed * 53 + i * 29) % 256] : seed \in 0..MaxSeed }

\* String.prototype.substring(from, to), 0-based, to exclusive
Substring(s, from, to) ==
  SubSeq(s, (IF from > Len(s) THEN Len(s) ELSE from) + 1,
            IF to > Len(s) THEN Len(s) ELSE to)

\* String.prototype.split(d): the segments between the occurrences of d
RECURSIVE Split(_, _)
Split(s, d) ==
  IF s = << >> THEN << << >> >>
  ELSE LET rest == Split(Tail(s), d)
       IN  IF Head(s) = d THEN << << >> >> \o rest
           ELSE << << Head(s) >> \o Head(rest) >> \o Tail(rest)


(***************************************************************************)
(* Error names.                                                            *)
(***************************************************************************)
\* err.name the keychain gives when the slot holds no password
PasswordNotFoundError == "PasswordNotFoundError"
\* encrypt's guard: no key to encrypt with (the spec's KeyUnavailable)
KeychainPasswordCreationError == "KeychainPasswordCreationError"
\* decrypt's parse (the spec's InvalidEncryptedFormat)
InvalidEncryptedFormatError == "InvalidEncryptedFormatError"
\* the wrapped failure of the decipher (the spec's DecryptionError)
AuthDecryptError == "AuthDecryptError"
\* the key cell read while Empty
NoKeyLoaded == "NoKeyLoaded"
\* createCipheriv / createDecipheriv refusing the key or the iv
InvalidKeyLength == "ERR_CRYPTO_INVALID_KEYLEN"
InvalidIv == "ERR_CRYPTO_INVALID_IV"

(***************************************************************************)
(* Results of a call: a returned string, undefined, or a thrown error.     *)
(***************************************************************************)
Returned(v) == [kind |-> "value", val |-> v, err |-> ""]
Undefined == [kind |-> "undefined", val |-> NULL, err |-> ""]
Thrown(e) == [kind |-> "error", val |-> NULL, err |-> e]

(***************************************************************************)
(* SecureBuffer (./secureBuffer): the key cell.                            *)
(***************************************************************************)
\* this._key = new SecureBuffer(): an object, holding nothing yet
NewSecureBuffer == [obj |-> "SecureBuffer", state |-> "Empty", bytes |-> << >>]

\* consume(bytes): the cell holds the bytes, whatever it held
Consume(cell, bytes) == [cell EXCEPT !.state = "Populated", !.bytes = bytes]

\* mutant: clear() of a cell that is already Empty marks it as torn down
Clear_MarksEmptyCell(cell) ==
  [cell EXCEPT !.state = IF @ = "Empty" THEN "Destroyed" ELSE "Empty",
               !.bytes = << >>]

\* clear(): the cell holds nothing
Clear(cell) == [cell EXCEPT !.state = "Empty", !.bytes = << >>]

\* value(cb) can run cb only on a Populated cell
CanBorrow(cell) == cell.state = "Populated"

(***************************************************************************)
(* The cipher 'aes-256-gcm' of node's crypto: a counter-mode keystream     *)
(* xor-ed onto the data and an authentication tag over the ciphertext, both  *)
(* keyed by key and iv.                                                    *)
(***************************************************************************)
RECURSIVE MixFrom(_, _)
MixFrom(s, i) ==
  IF i > Len(s) THEN 7 ELSE (MixFrom(s, i + 1) * 31 + s[i] + 1) % 251

\* key and iv are mixed into the keystream and the tag
Mix(s) == MixFrom(s, 1)

\* byte i of the keystream of a key and iv mixed into seed
KeyStream(seed, i) == (seed + i * 13 + 5) % 256

\* cipher.update / decipher.update: the same xor both ways
CtrXor(key, iv, data) ==
  CHOOSE out \in { [i \in 1..Len(data) |-> Xor(data[i], KeyStream(seed, i))] :
                     seed \in { Mix(key) * 17 + Mix(iv) * 29 } } : TRUE

\* block j of the data the tag authenticates: the ciphertext's length, then
\* its bytes, the bytes beyond the tag's length folded onto the earlier ones
RECURSIVE TagBlock(_, _, _)
TagBlock(ct, j, i) ==
  IF j = 1 THEN Len(ct) % 256
  ELSE IF i > Len(ct) THEN 0
  ELSE (ct[i] + TagBlock(ct, j, i + AuthTagLen - 1)) % 256

\* cipher.getAuthTag(): the tag of the ciphertext under key and iv; two
\* ciphertexts shorter than the tag never share a tag under one key and iv
AuthTag(key, iv, ct) ==
  CHOOSE tag \in { [j \in 1..AuthTagLen |->
                      (TagBlock(ct, j, j - 1) + (m * j) + (j * 7)) % 256] :
                     m \in { Mix(iv \o key) } } : TRUE

\* createCipheriv / createDecipheriv(_algo, key, iv): "" or the error thrown
CipherivError(key, iv) ==
  IF Len(Utf8Encode(key)) # ALGO_KEY_LEN THEN InvalidKeyLength
  ELSE IF iv = << >> THEN InvalidIv
  ELSE ""

\* mutant: decipher.final() is never called, so no tag is verified
TagVerifies_Skipped(key, iv, ct, tag) == TRUE

\* decipher.setAuthTag(tag) .. decipher.final(): whether the tag is accepted
TagVerifies(key, iv, ct, tag) ==
  Len(tag) = AuthTagLen /\ tag = AuthTag(key, iv, ct)

(***************************************************************************)
(* Crypto.encrypt and Crypto.decrypt as functions of the key cell and the  *)
(* argument (and, for encrypt, of the bytes randomBytes returned).         *)
(***************************************************************************)
\* mutant: `${iv}${TAG_DELIMITER}${encrypted}${TAG_DELIMITER}${tag}`
EncryptWithKey_DelimitedIv(buffer, text, iv) ==
  CHOOSE res \in
    { IF CipherivError(key, iv) # "" THEN Thrown(CipherivError(key, iv))
      ELSE Returned(iv \o << TAG_DELIMITER >>
                       \o ToHex(CtrXor(key, iv, Utf8Encode(text)))
                       \o << TAG_DELIMITER >>
                       \o ToHex(AuthTag(key, iv, CtrXor(key, iv, Utf8Encode(text)))))
      : key \in { Utf8Decode(buffer) } } : TRUE

\* the callback of encrypt: `${iv}${encrypted}${TAG_DELIMITER}${tag}`
EncryptWithKey(buffer, text, iv) ==
  LET key == Utf8Decode(buffer)
      ct == CtrXor(key, iv, Utf8Encode(text))
      encrypted == ToHex(ct)
      tag == ToHex(AuthTag(key, iv, ct))
      refused == CipherivError(key, iv)
  IN  IF refused # "" THEN Thrown(refused)
      ELSE Returned(iv \o encrypted \o << TAG_DELIMITER >> \o tag)

\* mutant: the null check is missing and the cipher refuses the argument
EncryptResult_NoNullCheck(cell, text, ivBytes) ==
  IF cell.obj = "null" THEN Thrown(KeychainPasswordCreationError)
  ELSE IF ~ CanBorrow(cell) THEN Thrown(NoKeyLoaded)
  ELSE IF text = NULL THEN Thrown("ERR_INVALID_ARG_TYPE")
  ELSE EncryptWithKey(cell.bytes, text, ToHex(ivBytes))

\* mutant: the iv is drawn once for the process, not once per call
EncryptResult_StaticIv(cell, text, ivBytes) ==
  IF text = NULL THEN Undefined
  ELSE IF cell.obj = "null" THEN Thrown(KeychainPasswordCreationError)
  ELSE IF ~ CanBorrow(cell) THEN Thrown(NoKeyLoaded)
  ELSE EncryptWithKey(cell.bytes, text,
                      ToHex([i \in 1..BYTE_COUNT_FOR_IV |-> 0]))

EncryptResult(cell, text, ivBytes) ==
  IF text = NULL THEN Undefined
  ELSE IF cell.obj = "null" THEN Thrown(KeychainPasswordCreationError)
  ELSE IF ~ CanBorrow(cell) THEN Thrown(NoKeyLoaded)
  ELSE EncryptWithKey(cell.bytes, text, ToHex(ivBytes))

\* the callback of decrypt
DecryptWithKey(buffer, tag, iv, secret) ==
  LET key == Utf8Decode(buffer)
      ct == FromHex(secret)
      refused == CipherivError(key, iv)
  IN  IF refused # "" THEN Thrown(refused)
      ELSE IF ~ TagVerifies(key, iv, ct, FromHex(tag)) THEN Thrown(AuthDecryptError)
      ELSE Returned(Utf8Decode(CtrXor(key, iv, ct)))

\* mutant: tokens.length < 2
BadTokenCount_LessThanTwo(tokens) == Len(tokens) < 2

\* tokens.length !== 2
BadTokenCount(tokens) == Len(tokens) # 2

\* mutant: the ciphertext is taken from BYTE_COUNT_FOR_IV on, not from twice that
DecryptResult_SecretOffset(cell, text) ==
  IF text = NULL THEN Undefined
  ELSE LET tokens == Split(text, TAG_DELIMITER)
       IN  IF Len(tokens) # 2 THEN Thrown(InvalidEncryptedFormatError)
           ELSE IF ~ CanBorrow(cell) THEN Thrown(NoKeyLoaded)
           ELSE DecryptWithKey(cell.bytes, tokens[2],
                               Substring(tokens[1], 0, BYTE_COUNT_FOR_IV * 2),
                               Substring(tokens[1], BYTE_COUNT_FOR_IV,
                                         Len(tokens[1])))

DecryptResult(cell, text) ==
  IF text = NULL THEN Undefined
  ELSE LET tokens == Split(text, TAG_DELIMITER)
       IN  IF BadTokenCount(tokens) THEN Thrown(InvalidEncryptedFormatError)
           ELSE IF ~ CanBorrow(cell) THEN Thrown(NoKeyLoaded)
           ELSE DecryptWithKey(cell.bytes, tokens[2],
                               Substring(tokens[1], 0, BYTE_COUNT_FOR_IV * 2),
                               Substring(tokens[1], BYTE_COUNT_FOR_IV * 2,
                                         Len(tokens[1])))

(***************************************************************************)
(* State.                                                                  *)
(***************************************************************************)
VARIABLES
  live,            \* the Crypto contexts in use
  kc,              \* the keychain in use: how its two calls may behave
  store,           \* the password in the keychain slot (KEY_NAME, ACCOUNT), or NULL
  pc,              \* per context: where its init() stands
  opts,            \* per context: this.options
  noResetOnClose,  \* per context: this.noResetOnClose
  key,             \* per context: this._key
  pending,         \* per context: the key init() generated and is about to set
  calls,           \* per context: the keychain calls of the current acquisition
  inits,           \* per context: external calls of init() so far
  outcome,         \* per context: "" while init() runs, "ok" or the error it failed with
  last,            \* per context: the latest call on the context and its result
  lastEnc,         \* per context: the latest envelope encrypt returned, and what made it
  prevEnc,         \* per context: the envelope of the encrypt right before it, if any
  closeCalled,     \* per context: close() has been called
  closes           \* per context: calls of close() so far

vars == << live, kc, store, pc, opts, noResetOnClose, key, pending, calls,
           inits, outcome, last, lastEnc, prevEnc, closeCalled, closes >>

Contexts == {"A", "B"}

\* errors, other than not-found, a keychain may give
KeychainGetError == "KeychainGetError"
KeychainSetError == "KeychainSetError"

\* keys init() can generate: crypto.randomBytes(16).toString('hex')
GeneratedKeys == { ToHex(b) : b \in RandomBytes(KEY_BYTE_COUNT) }

\* a password in the slot that is no key of the cipher ("pw")
ForeignPassword == << 112, 119 >>

NoCall == [op |-> "none", arg |-> NULL, kind |-> "undefined", val |-> NULL, err |-> ""]
CallRecord(op, arg, res) ==
  [op |-> op, arg |-> arg, kind |-> res.kind, val |-> res.val, err |-> res.err]

NoEnc == [text |-> NULL, iv |-> << >>, out |-> NULL, key |-> << >>]

DefaultOptions == [retryStatus |-> "undefined", noResetOnClose |-> FALSE]

\* a keychain call and how it ended: "ok" or the name of its error
Called(name, res) == << name, IF res.kind = "error" THEN res.err ELSE "ok" >>

(***************************************************************************)
(* The keychain: keychainPromises.getPassword / setPassword.  A keychain   *)
(* with getError (setError) set may fail a call with that error.           *)
(***************************************************************************)
KeychainGet ==
  { IF store = NULL THEN Thrown(PasswordNotFoundError) ELSE Returned(store) }
    \cup (IF kc.getError # "" THEN { Thrown(kc.getError) } ELSE {})

KeychainSet(password) ==
  { Returned(password) }
    \cup (IF kc.setError # "" THEN { Thrown(kc.setError) } ELSE {})

\* the slot after a successful setPassword
StoreAfterSet(password) == IF kc.persists THEN password ELSE store

(***************************************************************************)
(* Crypto.init.                                                            *)
(***************************************************************************)
\* where a context goes when its init() rejects: a context Crypto.create was
\* making is never handed out, one that was in use stays in use
AfterFailure(c) == IF inits[c] = 1 THEN "dead" ELSE "idle"

\* mutant: every error of getPassword is taken for not-found
IsNotFound_AnyError(res) == res.kind = "error"

\* err.name === 'PasswordNotFoundError'
IsNotFound(res) == res.kind = "error" /\ res.err = PasswordNotFoundError

\* mutant: the comparison is inverted
AlreadyRetried_Inverted(c) == opts[c].retryStatus # "KEY_SET"

\* this.options.retryStatus === 'KEY_SET'
AlreadyRetried(c) == opts[c].retryStatus = "KEY_SET"

\* init() is called: by Crypto.create on a new context, or again on one in use
InitCall(c) ==
  /\ pc[c] \in {"new", "idle"}
  /\ inits[c] < MaxInits
  /\ inits' = [inits EXCEPT ![c] = @ + 1]
  /\ noResetOnClose' = [noResetOnClose EXCEPT ![c] = opts[c].noResetOnClose]
  /\ calls' = [calls EXCEPT ![c] = << >>]
  /\ outcome' = [outcome EXCEPT ![c] = ""]
  /\ pc' = [pc EXCEPT ![c] = "get"]
  /\ last' = [last EXCEPT ![c] = CallRecord("init", NULL, Undefined)]
  /\ prevEnc' = [prevEnc EXCEPT ![c] = NoEnc]
  /\ UNCHANGED << live, kc, store, opts, key, pending, lastEnc, closeCalled, closes >>

\* mutant: the password found is replaced in the keychain by a fresh key
GetPasswordOk_SetsNewKey(c) ==
  /\ pc[c] = "get"
  /\ Len(calls[c]) + 1 < MaxStoreCalls
  /\ \E res \in KeychainGet, k \in GeneratedKeys :
       /\ res.kind = "value"
       /\ key' = [key EXCEPT ![c] = Consume(@, Utf8Encode(res.val))]
       /\ store' = k
       /\ calls' = [calls EXCEPT ![c] = @ \o << Called("get", res), << "set", "ok" >> >>]
  /\ outcome' = [outcome EXCEPT ![c] = "ok"]
  /\ pc' = [pc EXCEPT ![c] = "idle"]
  /\ UNCHANGED << live, kc, opts, noResetOnClose, pending, inits, last,
                  lastEnc, prevEnc, closeCalled, closes >>

\* getPassword resolves: the password is consumed and init() resolves
GetPasswordOk(c) ==
  /\ pc[c] = "get"
  /\ Len(calls[c]) < MaxStoreCalls
  /\ \E res \in KeychainGet :
       /\ res.kind = "value"
       /\ key' = [key EXCEPT ![c] = Consume(@, Utf8Encode(res.val))]
       /\ calls' = [calls EXCEPT ![c] = Append(@, Called("get", res))]
  /\ outcome' = [outcome EXCEPT ![c] = "ok"]
  /\ pc' = [pc EXCEPT ![c] = "idle"]
  /\ UNCHANGED << live, kc, store, opts, noResetOnClose, pending, inits, last,
                  lastEnc, prevEnc, closeCalled, closes >>

\* not found, and a key was already set: bail
GetPasswordNotFoundBail(c) ==
  /\ pc[c] = "get"
  /\ Len(calls[c]) < MaxStoreCalls
  /\ \E res \in KeychainGet :
       /\ res.kind = "error"
       /\ IsNotFound(res)
       /\ AlreadyRetried(c)
       /\ calls' = [calls EXCEPT ![c] = Append(@, Called("get", res))]
       /\ outcome' = [outcome EXCEPT ![c] = res.err]
  /\ pc' = [pc EXCEPT ![c] = AfterFailure(c)]
  /\ UNCHANGED << live, kc, store, opts, noResetOnClose, key, pending, inits,
                  last, lastEnc, prevEnc, closeCalled, closes >>

\* not found: generate a key and call setPassword
GetPasswordNotFoundProvision(c) ==
  /\ pc[c] = "get"
  /\ Len(calls[c]) < MaxStoreCalls
  /\ \E res \in KeychainGet :
       /\ res.kind = "error"
       /\ IsNotFound(res)
       /\ ~ AlreadyRetried(c)
       /\ calls' = [calls EXCEPT ![c] = Append(@, Called("get", res))]
  /\ \E k \in GeneratedKeys : pending' = [pending EXCEPT ![c] = k]
  /\ pc' = [pc EXCEPT ![c] = "set"]
  /\ UNCHANGED << live, kc, store, opts, noResetOnClose, key, inits, outcome,
                  last, lastEnc, prevEnc, closeCalled, closes >>

\* any other error of getPassword is thrown on
GetPasswordOtherError(c) ==
  /\ pc[c] = "get"
  /\ Len(calls[c]) < MaxStoreCalls
  /\ \E res \in KeychainGet :
       /\ res.kind = "error"
       /\ ~ IsNotFound(res)
       /\ calls' = [calls EXCEPT ![c] = Append(@, Called("get", res))]
       /\ outcome' = [outcome EXCEPT ![c] = res.err]
  /\ pc' = [pc EXCEPT ![c] = AfterFailure(c)]
  /\ UNCHANGED << live, kc, store, opts, noResetOnClose, key, pending, inits,
                  last, lastEnc, prevEnc, closeCalled, closes >>

\* mutant: the generated key is loaded as soon as setPassword resolves
SetPasswordOk_LoadsKey(c) ==
  /\ pc[c] = "set"
  /\ Len(calls[c]) < MaxStoreCalls
  /\ \E res \in KeychainSet(pending[c]) :
       /\ res.kind = "value"
       /\ store' = StoreAfterSet(pending[c])
       /\ calls' = [calls EXCEPT ![c] = Append(@, Called("set", res))]
  /\ key' = [key EXCEPT ![c] = Consume(@, Utf8Encode(pending[c]))]
  /\ noResetOnClose' = [noResetOnClose EXCEPT ![c] = opts[c].noResetOnClose]
  /\ pc' = [pc EXCEPT ![c] = "get"]
  /\ UNCHANGED << live, kc, opts, pending, inits, outcome, last, lastEnc,
                  prevEnc, closeCalled, closes >>

\* setPassword resolves: return this.init(), which runs up to its getPassword
SetPasswordOk(c) ==
  /\ pc[c] = "set"
  /\ Len(calls[c]) < MaxStoreCalls
  /\ \E res \in KeychainSet(pending[c]) :
       /\ res.kind = "value"
       /\ store' = StoreAfterSet(pending[c])
       /\ calls' = [calls EXCEPT ![c] = Append(@, Called("set", res))]
  /\ noResetOnClose' = [noResetOnClose EXCEPT ![c] = opts[c].noResetOnClose]
  /\ pc' = [pc EXCEPT ![c] = "get"]
  /\ UNCHANGED << live, kc, opts, key, pending, inits, outcome, last, lastEnc,
                  prevEnc, closeCalled, closes >>

\* mutant: the error of setPassword is swallowed and getPassword is retried
SetPasswordError_Swallowed(c) ==
  /\ pc[c] = "set"
  /\ Len(calls[c]) < MaxStoreCalls
  /\ \E res \in KeychainSet(pending[c]) :
       /\ res.kind = "error"
       /\ calls' = [calls EXCEPT ![c] = Append(@, Called("set", res))]
  /\ pc' = [pc EXCEPT ![c] = "get"]
  /\ UNCHANGED << live, kc, store, opts, noResetOnClose, key, pending, inits,
                  outcome, last, lastEnc, prevEnc, closeCalled, closes >>

\* setPassword rejects: init() rejects with its error
SetPasswordError(c) ==
  /\ pc[c] = "set"
  /\ Len(calls[c]) < MaxStoreCalls
  /\ \E res \in KeychainSet(pending[c]) :
       /\ res.kind = "error"
       /\ calls' = [calls EXCEPT ![c] = Append(@, Called("set", res))]
       /\ outcome' = [outcome EXCEPT ![c] = res.err]
  /\ pc' = [pc EXCEPT ![c] = AfterFailure(c)]
  /\ UNCHANGED << live, kc, store, opts, noResetOnClose, key, pending, inits,
                  last, lastEnc, prevEnc, closeCalled, closes >>

(***************************************************************************)
(* Crypto.encrypt, Crypto.decrypt, Crypto.close on a context in use.       *)
(***************************************************************************)
EncSummary(c, text, ivBytes, res) ==
  [text |-> text, iv |-> ToHex(ivBytes), out |-> res.val, key |-> key[c].bytes]

Encrypt(c, texts) ==
  /\ pc[c] = "idle"
  /\ \E text \in texts, ivBytes \in RandomBytes(BYTE_COUNT_FOR_IV) :
       \E res \in { EncryptResult(key[c], text, ivBytes) } :
           /\ last' = [last EXCEPT ![c] = CallRecord("encrypt", text, res)]
           /\ lastEnc' = [lastEnc EXCEPT ![c] =
                IF res.kind = "value" THEN EncSummary(c, text, ivBytes, res) ELSE @]
           /\ prevEnc' = [prevEnc EXCEPT ![c] =
                IF res.kind = "value" /\ last[c].op = "encrypt" /\ last[c].kind = "value"
                THEN lastEnc[c] ELSE NoEnc]
  /\ UNCHANGED << live, kc, store, pc, opts, noResetOnClose, key, pending,
                  calls, inits, outcome, closeCalled, closes >>

Decrypt(c, args) ==
  /\ pc[c] = "idle"
  /\ \E text \in args :
       last' = [last EXCEPT ![c] =
                  CallRecord("decrypt", text, DecryptResult(key[c], text))]
  /\ prevEnc' = [prevEnc EXCEPT ![c] = NoEnc]
  /\ UNCHANGED << live, kc, store, pc, opts, noResetOnClose, key, pending,
                  calls, inits, outcome, lastEnc, closeCalled, closes >>

\* mutant: the test of noResetOnClose is inverted
KeyAfterClose_FlagInverted(c) == IF noResetOnClose[c] THEN Clear(key[c]) ELSE key[c]

\* mutant: close() clears the key whatever noResetOnClose says
KeyAfterClose_AlwaysClear(c) == Clear(key[c])

\* the key cell after close()
KeyAfterClose(c) == IF ~ noResetOnClose[c] THEN Clear(key[c]) ELSE key[c]

Close(c) ==
  /\ pc[c] = "idle"
  /\ key' = [key EXCEPT ![c] = KeyAfterClose(c)]
  /\ closes[c] < MaxCloses
  /\ closeCalled' = [closeCalled EXCEPT ![c] = TRUE]
  /\ closes' = [closes EXCEPT ![c] = @ + 1]
  /\ last' = [last EXCEPT ![c] = CallRecord("close", NULL, Undefined)]
  /\ prevEnc' = [prevEnc EXCEPT ![c] = NoEnc]
  /\ UNCHANGED << live, kc, store, pc, opts, noResetOnClose, pending, calls,
                  inits, outcome, lastEnc >>

(***************************************************************************)
(* Inputs.                                                                 *)
(***************************************************************************)
\* "a:b:c", "no" and ":" : envelopes of three, one and two (empty) segments
ThreeSegments == << 97, 58, 98, 58, 99 >>
NoDelimiter == << 110, 111 >>
OnlyDelimiter == << 58 >>

\* texts and envelopes of the specification of the acquisition protocol
ProtocolTexts == { NULL, << 97 >> }
ProtocolArgs(c) ==
  { NULL, NoDelimiter, ThreeSegments }
    \cup (IF lastEnc[c].out = NULL THEN {} ELSE { lastEnc[c].out })

\* the characters of an envelope's ciphertext and tag portions
TamperPositions(env) ==
  { p \in (BYTE_COUNT_FOR_IV * 2 + 1)..Len(env) : env[p] # TAG_DELIMITER }

\* the envelope with one bit of one such character flipped
CharFlips(env) ==
  { [env EXCEPT ![p] = FlipBit(env[p], k)] : p \in TamperPositions(env), k \in 0..7 }

\* the envelope with one bit of one encoded ciphertext or tag byte flipped
ByteFlips(env) ==
  { [env EXCEPT ![p] = HexDigit(FlipBit(HexVal(env[p]), k))] :
      p \in TamperPositions(env), k \in 0..3 }

\* texts of the cipher's specification: "", "ab", U+00E9, an unpaired high
\* surrogate, the surrogate pair of U+1F600
CipherTexts ==
  { NULL, << >>, << 97, 98 >>, << 233 >>, << 55357 >>, << 55357, 56832 >> }

\* envelopes of the cipher's specification: malformed ones, the latest
\* envelope, and, right after encrypt returned it, that envelope tampered with
CipherArgs(c) ==
  { NULL, << >>, NoDelimiter, ThreeSegments, OnlyDelimiter }
    \cup (IF lastEnc[c].out = NULL THEN {} ELSE { lastEnc[c].out })
    \cup (IF last[c].op = "encrypt" /\ last[c].kind = "value" /\ prevEnc[c] = NoEnc
          THEN CharFlips(last[c].val) \cup ByteFlips(last[c].val) ELSE {})

(***************************************************************************)
(* Specification of one context, from construction on.                     *)
(***************************************************************************)
Keychains ==
  [persists : BOOLEAN, getError : {"", KeychainGetError},
   setError : {"", KeychainSetError}]

HonestKeychain == [persists |-> TRUE, getError |-> "", setError |-> ""]

Init ==
  /\ live = {"A"}
  /\ kc \in Keychains
  /\ store \in {NULL, ForeignPassword} \cup GeneratedKeys
  /\ pc = [c \in Contexts |-> "new"]
  /\ \E o \in [retryStatus : {"undefined", "KEY_SET"}, noResetOnClose : BOOLEAN] :
       opts = [c \in Contexts |-> IF c = "A" THEN o ELSE DefaultOptions]
  /\ noResetOnClose = [c \in Contexts |-> FALSE]
  /\ key = [c \in Contexts |-> NewSecureBuffer]
  /\ pending = [c \in Contexts |-> NULL]
  /\ calls = [c \in Contexts |-> << >>]
  /\ inits = [c \in Contexts |-> 0]
  /\ outcome = [c \in Contexts |-> ""]
  /\ last = [c \in Contexts |-> NoCall]
  /\ lastEnc = [c \in Contexts |-> NoEnc]
  /\ prevEnc = [c \in Contexts |-> NoEnc]
  /\ closeCalled = [c \in Contexts |-> FALSE]
  /\ closes = [c \in Contexts |-> 0]

Next ==
  \/ \E c \in live : InitCall(c)
  \/ \E c \in live : GetPasswordOk(c)
  \/ \E c \in live : GetPasswordNotFoundBail(c)
  \/ \E c \in live : GetPasswordNotFoundProvision(c)
  \/ \E c \in live : GetPasswordOtherError(c)
  \/ \E c \in live : SetPasswordOk(c)
  \/ \E c \in live : SetPasswordError(c)
  \/ \E c \in live : Encrypt(c, ProtocolTexts)
  \/ \E c \in live : Decrypt(c, ProtocolArgs(c))
  \/ \E c \in live : Close(c)

Spec == Init /\ [][Next]_vars

(***************************************************************************)
(* Specification of the cipher: one context that Crypto.create made with a *)
(* keychain holding a password (a state Spec reaches by InitCall and       *)
(* GetPasswordOk), and its encrypt and decrypt.                            *)
(***************************************************************************)
InitCipher ==
  /\ live = {"A"}
  /\ kc = HonestKeychain
  /\ store \in {ForeignPassword} \cup GeneratedKeys
  /\ pc = [c \in Contexts |-> IF c = "A" THEN "idle" ELSE "new"]
  /\ opts = [c \in Contexts |-> DefaultOptions]
  /\ noResetOnClose = [c \in Contexts |-> FALSE]
  /\ key = [c \in Contexts |->
              IF c = "A" THEN Consume(NewSecureBuffer, Utf8Encode(store))
              ELSE NewSecureBuffer]
  /\ pending = [c \in Contexts |-> NULL]
  /\ calls = [c \in Contexts |-> IF c = "A" THEN << << "get", "ok" >> >> ELSE << >>]
  /\ inits = [c \in Contexts |-> IF c = "A" THEN 1 ELSE 0]
  /\ outcome = [c \in Contexts |-> IF c = "A" THEN "ok" ELSE ""]
  /\ last = [c \in Contexts |->
               IF c = "A" THEN CallRecord("init", NULL, Undefined) ELSE NoCall]
  /\ lastEnc = [c \in Contexts |-> NoEnc]
  /\ prevEnc = [c \in Contexts |-> NoEnc]
  /\ closeCalled = [c \in Contexts |-> FALSE]
  /\ closes = [c \in Contexts |-> 0]

NextCipher ==
  \/ \E c \in live : Encrypt(c, CipherTexts)
  \/ \E c \in live : Decrypt(c, CipherArgs(c))

SpecCipher == InitCipher /\ [][NextCipher]_vars

(***************************************************************************)
(* Specification of two contexts that Crypto.create makes at the same time *)
(* over one keychain whose slot is empty: the steps of their init() calls, *)
(* each getPassword and setPassword atomic, interleave freely.             *)
(***************************************************************************)
InitRace ==
  /\ live = Contexts
  /\ kc = HonestKeychain
  /\ store = NULL
  /\ pc = [c \in Contexts |-> "new"]
  /\ opts = [c \in Contexts |-> DefaultOptions]
  /\ noResetOnClose = [c \in Contexts |-> FALSE]
  /\ key = [c \in Contexts |-> NewSecureBuffer]
  /\ pending = [c \in Contexts |-> NULL]
  /\ calls = [c \in Contexts |-> << >>]
  /\ inits = [c \in Contexts |-> 0]
  /\ outcome = [c \in Contexts |-> ""]
  /\ last = [c \in Contexts |-> NoCall]
  /\ lastEnc = [c \in Contexts |-> NoEnc]
  /\ prevEnc = [c \in Contexts |-> NoEnc]
  /\ closeCalled = [c \in Contexts |-> FALSE]
  /\ closes = [c \in Contexts |-> 0]

NextRace ==
  \/ \E c \in live : InitCall(c)
  \/ \E c \in live : GetPasswordOk(c)
  \/ \E c \in live : GetPasswordNotFoundProvision(c)
  \/ \E c \in live : SetPasswordOk(c)

SpecRace == InitRace /\ [][NextRace]_vars

(***************************************************************************)
(* Claims.                                                                 *)
(***************************************************************************)
\* a keychain that reports not-found on every getPassword, even after a
\* setPassword that it reported as done
NeverFinds ==
  kc = [persists |-> FALSE, getError |-> "", setError |-> ""] /\ store = NULL

\* the context was created without options.retryStatus
FreshOptions(c) == opts[c].retryStatus = "undefined"

\* C1: against a keychain that never finds the password, init() fails with
\* the not-found error after exactly one retry: one getPassword, one
\* setPassword, a second getPassword, and no keychain call after that.
C1_BoundedRetry ==
  \A c \in live :
    (NeverFinds /\ FreshOptions(c) /\ Len(calls[c]) >= 3)
      => /\ Len(calls[c]) = 3
         /\ outcome[c] = PasswordNotFoundError
         /\ pc[c] \in {"dead", "idle"}

\* the keychain calls of a provisioning acquisition, in order
ProvisionCalls ==
  << << "get", PasswordNotFoundError >>, << "set", "ok" >>, << "get", "ok" >> >>

\* C2: against a keychain that reports not-found on the first getPassword and
\* works from then on, init() calls getPassword, then setPassword once, then
\* getPassword once more, and resolves holding the key it generated and set.
C2_Provisioning ==
  \A c \in live :
    (kc = HonestKeychain /\ FreshOptions(c) /\ calls[c] # << >>
       /\ calls[c][1] = << "get", PasswordNotFoundError >>)
      => /\ Len(calls[c]) <= 3
         /\ calls[c] = SubSeq(ProvisionCalls, 1, Len(calls[c]))
         /\ Len(calls[c]) = 1 => (pc[c] = "set" /\ pending[c] \in GeneratedKeys)
         /\ Len(calls[c]) = 2 => (pc[c] = "get" /\ store = pending[c])
         /\ Len(calls[c]) = 3 =>
              /\ outcome[c] = "ok" /\ pc[c] = "idle" /\ store = pending[c]
              /\ last[c].op = "init" =>
                   key[c] = Consume(NewSecureBuffer, Utf8Encode(pending[c]))

C2_Witness ==
  \E c \in live :
    /\ kc = HonestKeychain /\ FreshOptions(c)
    /\ calls[c] = ProvisionCalls /\ outcome[c] = "ok"
    /\ key[c].state = "Populated" /\ key[c].bytes = Utf8Encode(pending[c])

\* C3: a getPassword that fails with an error other than not-found is the
\* last keychain call of the acquisition (no setPassword, no further
\* getPassword), and init() fails with that same error.
C3_OtherErrorPropagates ==
  \A c \in live :
    \A i \in 1..Len(calls[c]) :
      (calls[c][i][1] = "get" /\ calls[c][i][2] \notin {"ok", PasswordNotFoundError})
        => /\ i = Len(calls[c])
           /\ outcome[c] = calls[c][i][2]
           /\ pc[c] \in {"dead", "idle"}

C3_Witness ==
  \E c \in live :
    /\ calls[c] = << << "get", KeychainGetError >> >>
    /\ outcome[c] = KeychainGetError
    /\ store = NULL

\* close() has cleared the key of the context
KeyCleared(c) == closeCalled[c] /\ ~ noResetOnClose[c]

\* the argument is an envelope decrypt's parse accepts
TwoSegments(text) == Cardinality({ i \in 1..Len(text) : text[i] = TAG_DELIMITER }) = 1

\* C4: after close() on a context created without noResetOnClose, every
\* encrypt or decrypt call fails with KeyUnavailable
\* (KeychainPasswordCreationError).  Stated for the calls the claim can be
\* about: a non-null argument, for decrypt one that passes the parse, and
\* the key not loaded again since.
C4_ClosedFailsKeyUnavailable ==
  \A c \in live :
    (KeyCleared(c) /\ key[c].state = "Empty"
       /\ last[c].op \in {"encrypt", "decrypt"} /\ last[c].arg # NULL
       /\ (last[c].op = "decrypt" => TwoSegments(last[c].arg)))
      => (last[c].kind = "error" /\ last[c].err = KeychainPasswordCreationError)

\* C5: with noResetOnClose set, close() leaves the key cell as it is, still
\* Populated, and encrypt and decrypt called after close() succeed as before:
\* encrypt returns an envelope, decrypt of that envelope its plaintext.
C5_NoResetOnClose ==
  /\ [](\A c \in live :
          (noResetOnClose[c] /\ closeCalled[c] /\ pc[c] = "idle")
            => /\ key[c].state = "Populated"
               /\ (last[c].op = "encrypt" /\ last[c].arg # NULL
                     /\ Len(key[c].bytes) = ALGO_KEY_LEN)
                    => last[c].kind = "value"
               /\ (last[c].op = "decrypt" /\ lastEnc[c].out # NULL
                     /\ last[c].arg = lastEnc[c].out
                     /\ lastEnc[c].key = key[c].bytes)
                    => (last[c].kind = "value" /\ last[c].val = lastEnc[c].text))
  /\ [][\A c \in live :
          (Close(c) /\ noResetOnClose[c])
            => (key'[c] = key[c] /\ key[c].state = "Populated")]_vars

C5_Witness ==
  \E c \in live :
    /\ noResetOnClose[c] /\ closeCalled[c]
    /\ last[c].op = "decrypt" /\ last[c].arg = lastEnc[c].out
    /\ last[c].kind = "value" /\ last[c].val = << 97 >>

\* a string without unpaired surrogates: one that UTF-8 can encode
RECURSIVE WellFormed(_)
WellFormed(s) ==
  IF s = << >> THEN TRUE
  ELSE IF IsHighSurrogate(s[1])
       THEN Len(s) >= 2 /\ IsLowSurrogate(s[2]) /\ WellFormed(SubSeq(s, 3, Len(s)))
  ELSE ~ IsLowSurrogate(s[1]) /\ WellFormed(Tail(s))

\* the latest call decrypted the latest envelope under the key that made it
RoundTripCase(c) ==
  /\ last[c].op = "decrypt" /\ lastEnc[c].out # NULL
  /\ last[c].arg = lastEnc[c].out
  /\ key[c].state = "Populated" /\ key[c].bytes = lastEnc[c].key

\* C6 as claimed: decrypt(encrypt(s)) returns s for every non-null string s.
C6_RoundTripEveryString ==
  \A c \in live :
    RoundTripCase(c)
      => (last[c].kind = "value" /\ last[c].val = lastEnc[c].text)

\* C6 as amended: decrypt(encrypt(s)) returns s for every non-null string s
\* without unpaired surrogates, the empty string included.
C6_RoundTrip ==
  \A c \in live :
    (RoundTripCase(c) /\ WellFormed(lastEnc[c].text))
      => (last[c].kind = "value" /\ last[c].val = lastEnc[c].text)

C6_Witness ==
  \E c \in live :
    /\ RoundTripCase(c) /\ lastEnc[c].text = << 55357, 56832 >>
    /\ last[c].kind = "value" /\ last[c].val = lastEnc[c].text

\* the latest call decrypted a member of flipped, under the key that made
\* the latest envelope
TamperCase(c, flipped) ==
  /\ last[c].op = "decrypt" /\ lastEnc[c].out # NULL
  /\ key[c].state = "Populated" /\ key[c].bytes = lastEnc[c].key
  /\ last[c].arg \in flipped

\* C7 as claimed: an envelope with any single bit of its ciphertext or tag
\* portion flipped makes decrypt fail with DecryptionError (AuthDecryptError).
C7_AnyBitFlipDetected ==
  \A c \in live :
    TamperCase(c, CharFlips(lastEnc[c].out))
      => (last[c].kind = "error" /\ last[c].err = AuthDecryptError)

\* C7 as amended: an envelope with any single bit of an encoded ciphertext
\* or tag byte flipped makes decrypt fail with DecryptionError; with a single
\* bit of a character of those portions flipped, decrypt fails or returns
\* what it returns for the untouched envelope, never another plaintext.
C7_TamperDetection ==
  \A c \in live :
    /\ TamperCase(c, ByteFlips(lastEnc[c].out))
         => (last[c].kind = "error" /\ last[c].err = AuthDecryptError)
    /\ TamperCase(c, CharFlips(lastEnc[c].out))
         => \/ last[c].kind = "error"
            \/ last[c].val = DecryptResult(key[c], lastEnc[c].out).val

C7_Witness ==
  \E c \in live :
    /\ TamperCase(c, ByteFlips(lastEnc[c].out))
    /\ lastEnc[c].text = << 97, 98 >>
    /\ last[c].kind = "error" /\ last[c].err = AuthDecryptError

\* C8: decrypt of a non-null input fails with InvalidEncryptedFormat exactly
\* when the input does not hold exactly one delimiter (does not split into
\* exactly two segments).
C8_FormatCheck ==
  \A c \in live :
    (last[c].op = "decrypt" /\ last[c].arg # NULL)
      => ((last[c].kind = "error" /\ last[c].err = InvalidEncryptedFormatError)
            <=> ~ TwoSegments(last[c].arg))

C8_Witness ==
  \E c \in live :
    /\ last[c].op = "decrypt" /\ last[c].arg = ThreeSegments
    /\ last[c].kind = "error" /\ last[c].err = InvalidEncryptedFormatError

\* C9: encrypt(null) and decrypt(null) return undefined, whatever the state
\* of the context, and leave the key cell and the keychain as they are.
C9_NullPropagation ==
  /\ [](\A c \in live :
          (last[c].op \in {"encrypt", "decrypt"} /\ last[c].arg = NULL)
            => last[c].kind = "undefined")
  /\ [][\A c \in live :
          (Encrypt(c, {NULL}) \/ Decrypt(c, {NULL}))
            => (key' = key /\ store' = store)]_vars

C9_Witness ==
  \E c \in live :
    /\ KeyCleared(c) /\ key[c].state = "Empty"
    /\ last[c].op = "encrypt" /\ last[c].arg = NULL
    /\ last[c].kind = "undefined"

\* the two latest calls were encrypt calls of the same text under the same key
TwoEncrypts(c) ==
  /\ prevEnc[c].out # NULL /\ lastEnc[c].out # NULL
  /\ prevEnc[c].text = lastEnc[c].text
  /\ prevEnc[c].key = lastEnc[c].key

\* C10 as claimed: two encrypt calls of the same text under the same key use
\* different nonces and return different envelopes.
C10_NoncesAlwaysDiffer ==
  \A c \in live :
    TwoEncrypts(c)
      => (prevEnc[c].iv # lastEnc[c].iv /\ prevEnc[c].out # lastEnc[c].out)

\* C10 as amended: two encrypt calls of the same text under the same key
\* return different envelopes exactly when randomBytes gave them different
\* nonces, and each envelope starts with the nonce of its call.
C10_DistinctNonceDistinctEnvelope ==
  \A c \in live :
    TwoEncrypts(c)
      => /\ (prevEnc[c].out # lastEnc[c].out) <=> (prevEnc[c].iv # lastEnc[c].iv)
         /\ Substring(lastEnc[c].out, 0, BYTE_COUNT_FOR_IV * 2) = lastEnc[c].iv
         /\ Substring(prevEnc[c].out, 0, BYTE_COUNT_FOR_IV * 2) = prevEnc[c].iv

C10_Witness ==
  \E c \in live :
    /\ TwoEncrypts(c)
    /\ prevEnc[c].iv # lastEnc[c].iv
    /\ prevEnc[c].out # lastEnc[c].out

\* close() was called before and the key was not loaded again since
ClosedBefore(c) ==
  closes[c] >= 1 /\ (noResetOnClose[c] \/ key[c].state = "Empty")

\* C11: close() called a second or later time raises no error and leaves the
\* context as the first close() left it: the key cell, the options and the
\* position of the context are unchanged, and so is the keychain.
C11_CloseIdempotent ==
  [][\A c \in live :
       (Close(c) /\ ClosedBefore(c))
         => /\ key' = key /\ noResetOnClose' = noResetOnClose
            /\ pc' = pc /\ opts' = opts /\ store' = store
            /\ last'[c].op = "close" /\ last'[c].kind = "undefined"]_vars

C11_Witness ==
  \E c \in live :
    /\ closes[c] >= 2 /\ last[c].op = "close" /\ last[c].kind = "undefined"
    /\ ~ noResetOnClose[c] /\ key[c].state = "Empty"
    /\ lastEnc[c].out # NULL

\* the calls of one keychain operation among the calls of an acquisition
CallsOf(c, name) == { i \in 1..Len(calls[c]) : calls[c][i][1] = name }

\* C12: one acquisition calls setPassword at most once and getPassword at
\* most twice, whatever the keychain does, and once its setPassword has
\* resolved the retry guard (options.retryStatus) is 'KEY_SET'.
C12_AtMostOneSetTwoGets ==
  \A c \in live :
    /\ Cardinality(CallsOf(c, "set")) <= 1
    /\ Cardinality(CallsOf(c, "get")) <= 2
    /\ (\E i \in CallsOf(c, "set") : calls[c][i][2] = "ok")
         => opts[c].retryStatus = "KEY_SET"

\* C13: on a context holding a key of the cipher's length, decrypt of a text
\* of exactly two segments returns a plaintext that encrypt was given or
\* fails with DecryptionError (AuthDecryptError); no other error leaves
\* decrypt.
C13_OnlyDecryptionError ==
  \A c \in live :
    (last[c].op = "decrypt" /\ last[c].arg # NULL /\ TwoSegments(last[c].arg)
       /\ key[c].state = "Populated" /\ Len(key[c].bytes) = ALGO_KEY_LEN)
      => \/ last[c].kind = "value" /\ lastEnc[c].out # NULL
         \/ last[c].kind = "error" /\ last[c].err = AuthDecryptError

\* the first getPassword of the acquisition resolved
FirstGetOk(c) == calls[c] # << >> /\ calls[c][1] = << "get", "ok" >>

\* C14: when the first getPassword resolves, init() makes no other keychain
\* call (no setPassword), resolves holding the password the keychain returned,
\* and leaves the keychain slot as it was.
C14_FoundKeyNotOverwritten ==
  /\ [](\A c \in live :
          FirstGetOk(c)
            => /\ calls[c] = << << "get", "ok" >> >>
               /\ outcome[c] = "ok" /\ pc[c] = "idle"
               /\ last[c].op = "init"
                    => key[c] = Consume(NewSecureBuffer, Utf8Encode(store)))
  /\ [][\A c \in live :
          (pc[c] = "get" /\ calls[c] = << >> /\ FirstGetOk(c)')
            => (store' = store /\ store # NULL)]_vars

C14_Witness ==
  \E c \in live :
    /\ FirstGetOk(c) /\ outcome[c] = "ok" /\ last[c].op = "init"
    /\ store \in GeneratedKeys /\ key[c].bytes = Utf8Encode(store)

\* the calls of an acquisition whose setPassword rejected
FailedProvisionCalls ==
  << << "get", PasswordNotFoundError >>, << "set", KeychainSetError >> >>

\* C15: when setPassword rejects during provisioning, init() rejects with
\* that error and calls the keychain no more: no retried getPassword follows,
\* the slot is not written and no key is loaded.
C15_SetFailurePropagates ==
  /\ [](\A c \in live :
          (\E i \in CallsOf(c, "set") : calls[c][i][2] # "ok")
            => /\ calls[c][Len(calls[c])][1] = "set"
               /\ outcome[c] = calls[c][Len(calls[c])][2]
               /\ pc[c] \in {"dead", "idle"})
  /\ [][\A c \in live :
          SetPasswordError(c)
            => (store' = store /\ key' = key /\ outcome'[c] = KeychainSetError)]_vars

C15_Witness ==
  \E c \in live :
    /\ calls[c] = FailedProvisionCalls
    /\ outcome[c] = KeychainSetError /\ pc[c] = "dead"
    /\ key[c].state = "Empty" /\ store = NULL

\* C16 as claimed: once close() has cleared the key, nothing done on the
\* context (encrypt, decrypt, close, a repeated init) loads a key again.
C16_ClosedIsTerminal ==
  \A c \in live : KeyCleared(c) => key[c].state = "Empty"

\* C16 as amended: close() without noResetOnClose leaves the key cell Empty,
\* and an Empty cell stays Empty through encrypt, decrypt and close; it is
\* loaded again only by the getPassword of an init() that resolves.
C16_ClosedUntilInit ==
  /\ [](\A c \in live :
          (last[c].op = "close" /\ ~ noResetOnClose[c]) => key[c].state = "Empty")
  /\ [][\A c \in live :
          (key[c].state = "Empty" /\ key'[c].state = "Populated")
            => (pc[c] = "get" /\ pc'[c] = "idle" /\ outcome'[c] = "ok"
                  /\ key'[c].bytes = Utf8Encode(store))]_vars

C16_Witness ==
  \E c \in live :
    /\ KeyCleared(c) /\ key[c].state = "Empty"
    /\ last[c].op = "decrypt" /\ lastEnc[c].out # NULL
    /\ last[c].arg = lastEnc[c].out
    /\ last[c].kind = "error" /\ last[c].err = NoKeyLoaded

\* every character is a lower-case hex digit
IsHex(str) == \A i \in 1..Len(str) : str[i] \in (48..57) \cup (97..102)

\* the ciphertext and the tag encrypt computed for its latest envelope
MadeCiphertext(c) ==
  CtrXor(Utf8Decode(lastEnc[c].key), lastEnc[c].iv, Utf8Encode(lastEnc[c].text))
MadeTag(c) ==
  AuthTag(Utf8Decode(lastEnc[c].key), lastEnc[c].iv, MadeCiphertext(c))

\* C17: every envelope encrypt returns is nonce (12 hex characters), then the
\* ciphertext in hex, then ':', then the tag in hex, with one delimiter only;
\* decrypt's parse splits it into exactly the nonce, ciphertext and tag that
\* encrypt produced, and decrypt of it never fails with InvalidEncryptedFormat.
C17_EnvelopeForm ==
  \A c \in live :
    lastEnc[c].out # NULL
      => \E tokens \in { Split(lastEnc[c].out, TAG_DELIMITER) } :
           /\ TwoSegments(lastEnc[c].out) /\ ~ BadTokenCount(tokens)
           /\ IsHex(tokens[1]) /\ IsHex(tokens[2])
           /\ Len(lastEnc[c].iv) = BYTE_COUNT_FOR_IV * 2
           /\ Substring(tokens[1], 0, BYTE_COUNT_FOR_IV * 2) = lastEnc[c].iv
           /\ Substring(tokens[1], BYTE_COUNT_FOR_IV * 2, Len(tokens[1]))
                = ToHex(MadeCiphertext(c))
           /\ Len(MadeCiphertext(c)) = Len(Utf8Encode(lastEnc[c].text))
           /\ tokens[2] = ToHex(MadeTag(c))
           /\ (last[c].op = "decrypt" /\ last[c].arg = lastEnc[c].out)
                => ~ (last[c].kind = "error"
                        /\ last[c].err = InvalidEncryptedFormatError)

C17_Witness ==
  \E c \in live :
    /\ lastEnc[c].out # NULL /\ lastEnc[c].text = << >>
    /\ Len(lastEnc[c].out) = BYTE_COUNT_FOR_IV * 2 + 1 + AuthTagLen * 2
    /\ last[c].op = "decrypt" /\ last[c].arg = lastEnc[c].out
    /\ last[c].kind = "value" /\ last[c].val = << >>

\* both contexts were created, and the init() of each has resolved
BothAcquired ==
  \A c \in live : inits[c] = 1 /\ pc[c] = "idle" /\ outcome[c] = "ok"

\* C18: when two contexts acquire at the same time from an empty slot, after
\* both acquisitions have resolved both hold the same key, the one the
\* keychain holds.
C18_RaceSameKey ==
  BothAcquired => \A c \in live : key[c].bytes = Utf8Encode(store)

\* the init() of Crypto.create on the context has rejected
AcquireFailed(c) == inits[c] = 1 /\ outcome[c] \notin {"", "ok"}

\* C19: while the init() of a new context runs, and after it has rejected
\* for whatever reason, the key cell is Empty and holds no bytes; the cell of
\* a new context is Populated only once its getPassword has resolved.
C19_FailedAcquireLeavesKeyEmpty ==
  \A c \in live :
    /\ (inits[c] <= 1 /\ outcome[c] # "ok")
         => (key[c].state = "Empty" /\ key[c].bytes = << >>)
    /\ AcquireFailed(c) => pc[c] = "dead"
    /\ (inits[c] = 1 /\ key[c].state = "Populated")
         => (outcome[c] = "ok" /\ calls[c][Len(calls[c])] = << "get", "ok" >>)

C19_Witness ==
  \E c \in live :
    /\ AcquireFailed(c) /\ outcome[c] = KeychainGetError
    /\ Len(calls[c]) = 3 /\ calls[c][2] = << "set", "ok" >>
    /\ key[c].state = "Empty" /\ pc[c] = "dead"

=============================================================================
